---- MODULE Spec2Model ----
(***************************************************************************)
(* Model of rqt_joint_trajectory_controller/joint_trajectory_controller.py *)
(* (class JointTrajectoryController): controller discovery, the joint      *)
(* limit cache, the bind/unbind of a controller session, the monitor /     *)
(* control mode switch, command synthesis and feedback ingestion.          *)
(*                                                                         *)
(* Python strings are modelled as sequences of tokens (a token is a piece  *)
(* of the string that holds no "/", or the separator "/" itself), so that  *)
(* split, rsplit, join, substring search and sorting are computed.         *)
(* A Python dict is a function; its keys are the function's DOMAIN.        *)
(***************************************************************************)
EXTENDS Integers, Sequences, FiniteSets, TLC

VARIABLES
    cm_ns,                  \* self._cm_ns
    list_controllers,       \* self._list_controllers: NoLister or the manager it lists
    jtc_combo,              \* items of self._widget.jtc_combo (the candidate list)
    robot_joint_limits,     \* self._robot_joint_limits
    jtc_name,               \* self._jtc_name ("" and [] are both the empty string Empty)
    joint_names,            \* self._joint_names
    joint_pos,              \* self._joint_pos
    joint_widgets,          \* rows of joint_group's layout: the joint each editor is for
    widgets_enabled,        \* setEnabled state of the joint editors and the speed scaler
    enable_button,          \* self._widget.enable_button.isChecked()
    speed_val,              \* value of the speed scaling editor, in percent
    update_cmd_timer,       \* self._update_cmd_timer.isActive()
    update_act_pos_timer,   \* self._update_act_pos_timer.isActive()
    state_sub,              \* self._state_sub: NoHandle or the topic subscribed to
    cmd_pub,                \* self._cmd_pub: NoHandle or the topic published on
    executor,               \* self._executor: NoHandle or "executor"
    executor_thread,        \* state of self._executor_thread: "none", "spinning", "dead", "joined"
    signal_connected,       \* jointStateChanged is connected to _on_joint_state_change
    node_subs,              \* number of live subscriptions of self._node
    node_pubs,              \* number of live publishers of self._node
    threads,                \* number of running executor threads
    ui_queue,               \* jointStateChanged emissions queued for the UI thread
    pc,                     \* position of the UI thread inside _on_jtc_change
    call,                   \* argument of the _on_jtc_change in progress
    last                    \* what the last completed handler did (observation only)

vars == <<cm_ns, list_controllers, jtc_combo, robot_joint_limits, jtc_name,
          joint_names, joint_pos, joint_widgets, widgets_enabled, enable_button,
          speed_val, update_cmd_timer, update_act_pos_timer, state_sub, cmd_pub,
          executor, executor_thread, signal_connected, node_subs, node_pubs,
          threads, ui_queue, pc, call, last>>

discoveryVars == <<cm_ns, list_controllers, jtc_combo, robot_joint_limits>>
modeVars == <<enable_button, widgets_enabled, update_cmd_timer, update_act_pos_timer>>
rosVars == <<state_sub, cmd_pub, executor, executor_thread, node_subs, node_pubs, threads>>
sessionVars == <<joint_names, joint_pos, joint_widgets, signal_connected>>

----
(* Bounds of the model *)

MaxListing == 2     \* controllers in one answer of the controller listing service
MaxQueue == 1       \* queued jointStateChanged emissions not yet delivered
MaxDepth == 3       \* segments of a controller manager namespace

----
(* Strings *)

Empty == <<>>
Slash == "/"

Range(s) == {s[i] : i \in 1..Len(s)}

\* Index of the last "/" of s, 0 when s holds none.
LastSlash(s) ==
    LET idx == {i \in 1..Len(s) : s[i] = Slash}
    IN IF idx = {} THEN 0 ELSE CHOOSE i \in idx : \A j \in idx : j <= i

\* s.rsplit("/", 1)[0]
RSplitHead(s) == IF LastSlash(s) = 0 THEN s ELSE SubSeq(s, 1, LastSlash(s) - 1)

\* "/".join(s.split("/")[:-1])
DropLastSegment(s) == IF LastSlash(s) = 0 THEN Empty ELSE SubSeq(s, 1, LastSlash(s) - 1)

\* marker in s
Contains(s, marker) ==
    \E i \in 0..(Len(s) - Len(marker)) :
        \A k \in 1..Len(marker) : s[i + k] = marker[k]

\* Code points of the characters the controller names of the model are made of.
CodePoint(c) ==
    CASE c = "a" -> 97
      [] c = "b" -> 98
      [] c = "c" -> 99
      [] OTHER -> 0

\* Python's s < t on strings.
StrLess(s, t) ==
    \E i \in 1..(Len(t)) :
        /\ \A k \in 1..(i - 1) : k <= Len(s) /\ s[k] = t[k]
        /\ \/ i = Len(s) + 1
           \/ i <= Len(s) /\ CodePoint(s[i]) < CodePoint(t[i])

RECURSIVE InsertSorted(_, _)
InsertSorted(x, s) ==
    IF s = <<>> THEN <<x>>
    ELSE IF StrLess(x, Head(s)) THEN <<x>> \o s
    ELSE <<Head(s)>> \o InsertSorted(x, Tail(s))

\* sorted(names)
RECURSIVE Sorted(_)
Sorted(s) == IF s = <<>> THEN <<>> ELSE InsertSorted(Head(s), Sorted(Tail(s)))

----
(* Dicts *)

EmptyDict == [k \in {} |-> 0]
Put(d, k, v) == [x \in (DOMAIN d) \cup {k} |-> IF x = k THEN v ELSE d[x]]
\* d.update(e)
Update(d, e) == [x \in (DOMAIN d) \cup (DOMAIN e) |-> IF x \in DOMAIN e THEN e[x] ELSE d[x]]
Restrict(d, S) == [x \in (DOMAIN d) \cap S |-> d[x]]

----
(* The world outside the plugin: what the services it calls can answer *)

NoLister == "None"
NoHandle == "None"

Managers == {<<"/", "controller_manager">>}

NameA == <<"a">>
NameAB == <<"a", "b">>
NameB == <<"b">>

JointJ1 == <<"j1">>
JointJ2 == <<"j2">>
JointJ3 == <<"j3">>     \* a joint of no controller of the model
Joints == {JointJ1, JointJ2}

TypeJtc == <<"position_controllers", "/", "JointTrajectoryController">>
TypeOther == <<"diff_drive_controller", "/", "DiffDriveController">>

IfJ1 == << <<"j1", "/", "position">>, <<"j1", "/", "velocity">> >>
IfJ1J2 == << <<"j1", "/", "position">>, <<"j2", "/", "position">>, <<"j1", "/", "velocity">> >>
IfJ2 == << <<"j2", "/", "position">> >>

Info(n, t, s, i) == [name |-> n, type |-> t, state |-> s, required_state_interfaces |-> i]

\* The ControllerInfo records a manager of the model can report.
ControllerInfos ==
    { Info(NameA, TypeJtc, "active", IfJ1),
      Info(NameA, TypeJtc, "active", IfJ1J2),
      Info(NameB, TypeJtc, "active", IfJ2),
      Info(NameB, TypeJtc, "inactive", IfJ2),
      Info(NameAB, TypeJtc, "active", IfJ1),
      Info(NameAB, TypeOther, "active", IfJ1) }

\* Answers of the controller listing service: controller names are unique in a manager.
Listings ==
    { l \in UNION {[1..n -> ControllerInfos] : n \in 0..MaxListing} :
        \A i, j \in 1..Len(l) : i # j => l[i].name # l[j].name }

Limits(v) == [min_position |-> 0, max_position |-> 1, max_velocity |-> v]
\* The limit records a robot description of the model can hold for a joint.
LimitRecords(j) == IF j = JointJ1 THEN {Limits(1), Limits(2)} ELSE {Limits(2)}

\* What the robot description holds at the time of a lookup: limits for some joints.
UrdfSnapshots ==
    UNION { {u \in [S -> {Limits(1), Limits(2)}] : \A j \in S : u[j] \in LimitRecords(j)} :
            S \in SUBSET Joints }

\* get_joint_limits(node, names): the limits of those of names the description resolves.
GetJointLimits(urdf, names) == Restrict(urdf, Range(names))

----
(* Controller discovery *)

Marker == <<"JointTrajectoryController">>

\* filter_by_type(controller_list, marker, match_substring=True)
FilterByType(controller_list, marker) ==
    SelectSeq(controller_list, LAMBDA c : Contains(c.type, marker))

\* filter_by_state(controller_list, state)
FilterByState(controller_list, state) ==
    SelectSeq(controller_list, LAMBDA c : c.state = state)

RunningJtcInfo(controller_list) ==
    FilterByState(FilterByType(controller_list, Marker), "active")

RECURSIVE DedupNames(_, _)
DedupNames(interfaces, acc) ==
    IF interfaces = <<>> THEN acc
    ELSE LET name == DropLastSegment(Head(interfaces))
         IN DedupNames(Tail(interfaces),
                       IF name \in Range(acc) THEN acc ELSE Append(acc, name))

JtcJointNames(jtc_info) == DedupNames(jtc_info.required_state_interfaces, <<>>)

\* Mutant: the limits are looked up whether or not the cache is filled.
NeedsLimitLookupAlways(running_jtc, limits) == running_jtc # <<>>

NeedsLimitLookup(running_jtc, limits) ==
    running_jtc # <<>> /\ DOMAIN limits = {}

RECURSIVE FetchLimits(_, _, _)
FetchLimits(running_jtc, urdf, acc) ==
    IF running_jtc = <<>> THEN acc
    ELSE FetchLimits(Tail(running_jtc), urdf,
                     Update(acc, GetJointLimits(urdf, JtcJointNames(Head(running_jtc)))))

\* Mutant: any() for all().
HasLimitsAny(jtc_info, limits) ==
    \E name \in Range(JtcJointNames(jtc_info)) : name \in DOMAIN limits

HasLimits(jtc_info, limits) ==
    \A name \in Range(JtcJointNames(jtc_info)) : name \in DOMAIN limits

\* Mutant: with an empty cache every running controller passes.
ValidJtcDeferred(running_jtc, limits) ==
    IF DOMAIN limits # {}
    THEN SelectSeq(running_jtc, LAMBDA c : \A name \in Range(JtcJointNames(c)) :
                                              name \in DOMAIN limits)
    ELSE running_jtc

ValidJtc(running_jtc, limits) ==
    IF DOMAIN limits # {}
    THEN SelectSeq(running_jtc, LAMBDA c : HasLimits(c, limits))
    ELSE <<>>

NamesOf(infos) == [i \in 1..Len(infos) |-> infos[i].name]

----
(* Observation of the last completed handler *)

Obs(event) ==
    [event |-> event, name |-> Empty, val |-> FALSE, error |-> "",
     published |-> <<>>, polled |-> <<>>, lookups |-> 0, destroyed |-> 0,
     from_control |-> FALSE,
     report |-> <<>>,        \* the queued emission the handler was given
     before |-> EmptyDict,   \* self._joint_pos when the handler was given it
     result |-> <<>>]        \* what the function returned

NoCall == [name |-> Empty, from_control |-> FALSE, destroyed |-> 0]

----
(* Monitor / control mode *)

Mode ==
    [enable_button |-> enable_button, widgets_enabled |-> widgets_enabled,
     update_cmd_timer |-> update_cmd_timer, update_act_pos_timer |-> update_act_pos_timer]

SetMode(m) ==
    /\ enable_button' = m.enable_button
    /\ widgets_enabled' = m.widgets_enabled
    /\ update_cmd_timer' = m.update_cmd_timer
    /\ update_act_pos_timer' = m.update_act_pos_timer

\* Mutant: entering control mode does not stop the feedback-refresh timer.
SwitchTimersKeepsRefresh(val, m) ==
    IF val
    THEN [m EXCEPT !.update_cmd_timer = TRUE]
    ELSE [m EXCEPT !.update_cmd_timer = FALSE, !.update_act_pos_timer = TRUE]

\* Mutant: entering monitor mode does not start the feedback-refresh timer.
SwitchTimersNoRefresh(val, m) ==
    IF val
    THEN [m EXCEPT !.update_act_pos_timer = FALSE, !.update_cmd_timer = TRUE]
    ELSE [m EXCEPT !.update_cmd_timer = FALSE]

\* Mutant: entering monitor mode does not stop the command timer.
SwitchTimersKeepsCmd(val, m) ==
    IF val
    THEN [m EXCEPT !.update_act_pos_timer = FALSE, !.update_cmd_timer = TRUE]
    ELSE [m EXCEPT !.update_act_pos_timer = TRUE]

\* Lines 298-305: the two timers after _on_jtc_enabled(val) on a selected controller.
SwitchTimers(val, m) ==
    IF val
    THEN [m EXCEPT !.update_act_pos_timer = FALSE, !.update_cmd_timer = TRUE]
    ELSE [m EXCEPT !.update_cmd_timer = FALSE, !.update_act_pos_timer = TRUE]

\* _on_jtc_enabled(val) with self._jtc_name = name. With no controller selected the
\* button is unchecked again (the toggled signal this emits re-enters the handler,
\* which finds the button unchecked and returns).
JtcEnabled(val, name, m) ==
    IF name = Empty
    THEN [m EXCEPT !.enable_button = FALSE]
    ELSE SwitchTimers(val, [m EXCEPT !.widgets_enabled = val])

\* Mutant: the button is left as it is.
SetCheckedIgnored(val, name, m) == m

\* enable_button.setChecked(val): toggled is emitted, and _on_jtc_enabled runs, only
\* when the checked state changes.
SetChecked(val, name, m) ==
    IF m.enable_button = val THEN m
    ELSE JtcEnabled(val, name, [m EXCEPT !.enable_button = val])

----
(* Namespace of a controller *)

\* Line 499: assert controller_name
ResolveError(controller_name) == IF controller_name = Empty THEN "AssertionError" ELSE ""

\* Mutant: no separator between the namespace and the name.
ResolveControllerNsBare(cm, controller_name) == RSplitHead(cm) \o controller_name

\* Lines 500-504
ResolveControllerNs(cm, controller_name) ==
    LET ns == RSplitHead(cm)
    IN (IF ns # <<Slash>> THEN ns \o <<Slash>> ELSE ns) \o controller_name

----
(* Command synthesis; durations are exact fractions <<numerator, denominator>> *)

CmdPubFreq == 10
SliderMaximum == 100
InitialSpeedVal == 50

MinTrajDur == <<5, CmdPubFreq>>

Abs(x) == IF x < 0 THEN -x ELSE x

RECURSIVE Gcd(_, _)
Gcd(a, b) == IF b = 0 THEN a ELSE Gcd(b, a % b)

Reduce(q) == LET g == Gcd(q[1], q[2]) IN IF g = 0 THEN q ELSE <<q[1] \div g, q[2] \div g>>

RatLess(p, q) == p[1] * q[2] < q[1] * p[2]
RatMax(p, q) == IF RatLess(p, q) THEN q ELSE p

\* The joint can be synthesized: lines 430 and 436 raise KeyError otherwise.
JointReady(name, pos, limits) ==
    /\ name \in DOMAIN pos
    /\ "position" \in DOMAIN pos[name]
    /\ name \in DOMAIN limits

CmdOf(name, pos) ==
    IF "command" \in DOMAIN pos[name] THEN pos[name]["command"] ELSE pos[name]["position"]

JointDur(name, pos, limits) ==
    RatMax(<<Abs(CmdOf(name, pos) - pos[name]["position"]), limits[name].max_velocity>>,
           MinTrajDur)

\* Mutant: the duration of the first joint for the maximum over the joints.
MaxDurFirst(names, pos, limits) == JointDur(names[1], pos, limits)

RECURSIVE MaxDur(_, _, _)
MaxDur(names, pos, limits) ==
    IF Len(names) = 1 THEN JointDur(names[1], pos, limits)
    ELSE RatMax(JointDur(Head(names), pos, limits), MaxDur(Tail(names), pos, limits))

\* Mutant: the duration is not divided by the speed scale.
ScaledDurationUnscaled(d, val) == Reduce(d)

\* max(dur) / self._speed_scale, with _speed_scale = val / slider.maximum()
ScaledDuration(d, val) == Reduce(<<d[1] * SliderMaximum, d[2] * val>>)

\* The exception _update_cmd_cb raises, "" when it publishes.
CmdError(names, pos, limits, pub) ==
    IF \E i \in 1..Len(names) : ~JointReady(names[i], pos, limits) THEN "KeyError"
    ELSE IF names = <<>> THEN "ValueError"
    ELSE IF pub = NoHandle THEN "AttributeError"
    ELSE ""

\* The JointTrajectory of lines 426-441: the joint names and its points; the time from
\* start of a point is the number of seconds handed to rclpy.duration.Duration.
Trajectory(names, pos, limits, val) ==
    [joint_names |-> names,
     points |-> << [positions |-> [i \in 1..Len(names) |-> CmdOf(names[i], pos)],
                    time_from_start |-> ScaledDuration(MaxDur(names, pos, limits), val)] >>]

----
(* Initial state: after __init__ *)

Init ==
    /\ cm_ns = Empty
    /\ list_controllers = NoLister
    /\ jtc_combo = <<>>
    /\ robot_joint_limits = EmptyDict
    /\ jtc_name = Empty
    /\ joint_names = <<>>
    /\ joint_pos = EmptyDict
    /\ joint_widgets = <<>>
    /\ widgets_enabled = FALSE
    /\ enable_button = FALSE
    /\ speed_val = InitialSpeedVal
    /\ update_cmd_timer = FALSE
    /\ update_act_pos_timer = FALSE
    /\ state_sub = NoHandle
    /\ cmd_pub = NoHandle
    /\ executor = NoHandle
    /\ executor_thread = "none"
    /\ signal_connected = FALSE
    /\ node_subs = 0
    /\ node_pubs = 0
    /\ threads = 0
    /\ ui_queue = <<>>
    /\ pc = "idle"
    /\ call = NoCall
    /\ last = Obs("init")

----
(* Discovery handlers (UI thread) *)

\* _update_jtc_list with a controller lister: the cache and the candidate list after it.
LimitsAfterPoll(listing, urdf, limits) ==
    IF NeedsLimitLookup(RunningJtcInfo(listing), limits)
    THEN FetchLimits(RunningJtcInfo(listing), urdf, EmptyDict)
    ELSE limits

LookupsOfPoll(listing, limits) ==
    IF NeedsLimitLookup(RunningJtcInfo(listing), limits)
    THEN Len(RunningJtcInfo(listing))
    ELSE 0

CandidatesAfterPoll(listing, limits) ==
    Sorted(NamesOf(ValidJtc(RunningJtcInfo(listing), limits)))

\* Timer tick of _update_jtc_list_timer.
UpdateJtcList(listing, urdf) ==
    /\ pc = "idle"
    /\ IF list_controllers = NoLister
       THEN /\ jtc_combo' = <<>>
            /\ robot_joint_limits' = robot_joint_limits
            /\ last' = Obs("update_jtc_list")
       ELSE /\ robot_joint_limits' = LimitsAfterPoll(listing, urdf, robot_joint_limits)
            /\ jtc_combo' = CandidatesAfterPoll(listing, robot_joint_limits')
            /\ last' = [Obs("update_jtc_list") EXCEPT
                          !.polled = <<listing>>,
                          !.lookups = LookupsOfPoll(listing, robot_joint_limits)]
    /\ UNCHANGED <<cm_ns, list_controllers, jtc_name, speed_val, ui_queue, pc, call>>
    /\ UNCHANGED <<modeVars, rosVars, sessionVars>>

\* cm_combo.currentIndexChanged
OnCmChange(cm, listing, urdf) ==
    /\ pc = "idle"
    /\ cm_ns' = cm
    /\ IF cm # Empty
       THEN /\ list_controllers' = cm
            /\ robot_joint_limits' = LimitsAfterPoll(listing, urdf, robot_joint_limits)
            /\ jtc_combo' = CandidatesAfterPoll(listing, robot_joint_limits')
            /\ last' = [Obs("on_cm_change") EXCEPT
                          !.polled = <<listing>>,
                          !.lookups = LookupsOfPoll(listing, robot_joint_limits)]
       ELSE /\ list_controllers' = NoLister
            /\ UNCHANGED <<robot_joint_limits, jtc_combo>>
            /\ last' = Obs("on_cm_change")
    /\ UNCHANGED <<jtc_name, speed_val, ui_queue, pc, call>>
    /\ UNCHANGED <<modeVars, rosVars, sessionVars>>

----
(* Mode and command handlers (UI thread) *)

\* enable_button.toggled: the user clicks the button, which flips its checked state.
OnJtcEnabled ==
    /\ pc = "idle"
    /\ LET val == ~enable_button
       IN /\ SetMode(JtcEnabled(val, jtc_name, [Mode EXCEPT !.enable_button = val]))
          /\ last' = [Obs("on_jtc_enabled") EXCEPT !.val = val]
    /\ UNCHANGED <<jtc_name, speed_val, ui_queue, pc, call>>
    /\ UNCHANGED <<discoveryVars, rosVars, sessionVars>>

\* speed_scaling.valueChanged: the editor is usable while it is enabled.
OnSpeedScalingChange(val) ==
    /\ pc = "idle"
    /\ widgets_enabled
    /\ val # speed_val
    /\ speed_val' = val
    /\ last' = Obs("on_speed_scaling_change")
    /\ UNCHANGED <<jtc_name, ui_queue, pc, call>>
    /\ UNCHANGED <<discoveryVars, modeVars, rosVars, sessionVars>>

\* valueChanged of the editor of joint name.
UpdateSingleCmdCb(val, name) ==
    /\ pc = "idle"
    /\ name \in Range(joint_widgets)
    /\ name \in DOMAIN joint_pos
    /\ joint_pos' = [joint_pos EXCEPT ![name] = Put(@, "command", val)]
    /\ last' = Obs("update_single_cmd_cb")
    /\ UNCHANGED <<jtc_name, speed_val, ui_queue, pc, call>>
    /\ UNCHANGED <<joint_names, joint_widgets, signal_connected>>
    /\ UNCHANGED <<discoveryVars, modeVars, rosVars>>

\* Timeout of _update_cmd_timer.
UpdateCmdCb ==
    /\ pc = "idle"
    /\ update_cmd_timer
    /\ LET err == CmdError(joint_names, joint_pos, robot_joint_limits, cmd_pub)
       IN last' = [Obs("update_cmd_cb") EXCEPT
                     !.error = err,
                     !.published =
                        IF err = ""
                        THEN <<Trajectory(joint_names, joint_pos, robot_joint_limits, speed_val)>>
                        ELSE <<>>]
    /\ UNCHANGED <<jtc_name, speed_val, ui_queue, pc, call>>
    /\ UNCHANGED <<discoveryVars, modeVars, rosVars, sessionVars>>

\* Timeout of _update_act_pos_timer: the editors show the feedback positions.
UpdateJointWidgets ==
    /\ pc = "idle"
    /\ update_act_pos_timer
    /\ last' = [Obs("update_joint_widgets") EXCEPT
                  !.error = IF Len(joint_widgets) > Len(joint_names)
                            THEN "IndexError" ELSE ""]
    /\ UNCHANGED <<jtc_name, speed_val, ui_queue, pc, call>>
    /\ UNCHANGED <<discoveryVars, modeVars, rosVars, sessionVars>>

----
(* Selecting a controller: _on_jtc_change runs _unload_jtc, stores the name and,  *)
(* for a non-empty name, runs _load_jtc. The handler is a sequence of steps of    *)
(* the UI thread; the executor thread of the session runs between them.           *)

MarkStale(queue) == [i \in 1..Len(queue) |-> [queue[i] EXCEPT !.stale = TRUE]]

\* jtc_combo.currentIndexChanged(name): an item of the combo, or "" for no selection.
\* Lines 358-361: jointStateChanged.disconnect.
OnJtcChange(name) ==
    /\ pc = "idle"
    /\ name = Empty \/ name \in Range(jtc_combo)
    /\ pc' = "unregister_state_sub"
    /\ call' = [name |-> name, from_control |-> enable_button, destroyed |-> 0]
    /\ signal_connected' = FALSE
    /\ ui_queue' = MarkStale(ui_queue)
    /\ last' = Obs("running")
    /\ UNCHANGED <<jtc_name, speed_val, joint_names, joint_pos, joint_widgets>>
    /\ UNCHANGED <<discoveryVars, modeVars, rosVars>>

\* Mutant: the handle is dropped and the subscription is not destroyed.
UnregisterStateSubLeak ==
    /\ pc = "unregister_state_sub"
    /\ pc' = "unregister_cmd_pub"
    /\ state_sub' = NoHandle
    /\ UNCHANGED <<jtc_name, speed_val, ui_queue, last, call>>
    /\ UNCHANGED <<cmd_pub, executor, executor_thread, node_subs, node_pubs, threads>>
    /\ UNCHANGED <<discoveryVars, modeVars, sessionVars>>

UnregisterStateSub ==
    /\ pc = "unregister_state_sub"
    /\ pc' = "unregister_cmd_pub"
    /\ IF state_sub # NoHandle
       THEN /\ node_subs' = node_subs - 1
            /\ state_sub' = NoHandle
            /\ call' = [call EXCEPT !.destroyed = @ + 1]
       ELSE UNCHANGED <<node_subs, state_sub, call>>
    /\ UNCHANGED <<jtc_name, speed_val, ui_queue, last>>
    /\ UNCHANGED <<cmd_pub, executor, executor_thread, node_pubs, threads>>
    /\ UNCHANGED <<discoveryVars, modeVars, sessionVars>>

UnregisterCmdPub ==
    /\ pc = "unregister_cmd_pub"
    /\ pc' = "unregister_executor"
    /\ IF cmd_pub # NoHandle
       THEN /\ node_pubs' = node_pubs - 1
            /\ cmd_pub' = NoHandle
            /\ call' = [call EXCEPT !.destroyed = @ + 1]
       ELSE UNCHANGED <<node_pubs, cmd_pub, call>>
    /\ UNCHANGED <<jtc_name, speed_val, ui_queue, last>>
    /\ UNCHANGED <<state_sub, executor, executor_thread, node_subs, threads>>
    /\ UNCHANGED <<discoveryVars, modeVars, sessionVars>>

\* executor.shutdown() and executor_thread.join(): returns once the thread has ended.
UnregisterExecutor ==
    /\ pc = "unregister_executor"
    /\ pc' = "reset"
    /\ IF executor # NoHandle
       THEN /\ executor' = NoHandle
            /\ executor_thread' = "joined"
            /\ threads' = IF executor_thread = "spinning" THEN threads - 1 ELSE threads
            /\ call' = [call EXCEPT !.destroyed = @ + 1]
       ELSE UNCHANGED <<executor, executor_thread, threads, call>>
    /\ UNCHANGED <<jtc_name, speed_val, ui_queue, last>>
    /\ UNCHANGED <<state_sub, cmd_pub, node_subs, node_pubs>>
    /\ UNCHANGED <<discoveryVars, modeVars, sessionVars>>

\* Mutant: the joint data is not reset.
UnloadResetKeepsData ==
    /\ pc = "reset"
    /\ pc' = "select"
    /\ joint_widgets' = <<>>
    /\ SetMode(SetChecked(FALSE, jtc_name, Mode))
    /\ UNCHANGED <<jtc_name, speed_val, ui_queue, last, call>>
    /\ UNCHANGED <<joint_names, joint_pos, signal_connected>>
    /\ UNCHANGED <<discoveryVars, rosVars>>

\* Lines 368-385: clear the joint editors, reset the joint data, uncheck the button.
UnloadReset ==
    /\ pc = "reset"
    /\ pc' = "select"
    /\ joint_widgets' = <<>>
    /\ joint_names' = <<>>
    /\ joint_pos' = EmptyDict
    /\ SetMode(SetChecked(FALSE, jtc_name, Mode))
    /\ UNCHANGED <<jtc_name, speed_val, ui_queue, last, call, signal_connected>>
    /\ UNCHANGED <<discoveryVars, rosVars>>

\* Lines 318-322: an editor is added for each joint up to the first joint without limits.
RECURSIVE WidgetRows(_, _)
WidgetRows(names, limits) ==
    IF names = <<>> \/ Head(names) \notin DOMAIN limits THEN <<>>
    ELSE <<Head(names)>> \o WidgetRows(Tail(names), limits)

\* Lines 309-312: the joints of the selected controller in the current listing.
MatchingJtc(listing, name) ==
    SelectSeq(RunningJtcInfo(listing), LAMBDA c : c.name = name)

\* The exception that ends _load_jtc before it binds anything, "" when it binds.
LoadError(lister, listing, name) ==
    IF lister = NoLister THEN "TypeError"
    ELSE IF MatchingJtc(listing, name) = <<>> THEN "StopIteration"
    ELSE ""

\* Lines 281-283 and _load_jtc. An exception that leaves the handler is reported by the
\* Qt binding and the plugin goes on with what the handler had done so far.
JtcSelect(listing) ==
    /\ pc = "select"
    /\ pc' = "idle"
    /\ call' = NoCall
    /\ jtc_name' = call.name
    /\ LET err == IF call.name = Empty THEN ""
                  ELSE LoadError(list_controllers, listing, call.name)
       IN /\ last' = [Obs("on_jtc_change") EXCEPT
                        !.name = call.name, !.error = err,
                        !.destroyed = call.destroyed,
                        !.from_control = call.from_control]
          /\ IF call.name = Empty \/ err # ""
             THEN /\ UNCHANGED <<modeVars, rosVars, sessionVars>>
             ELSE LET names == JtcJointNames(MatchingJtc(listing, call.name)[1])
                      jtc_ns == ResolveControllerNs(cm_ns, call.name)
                  IN /\ joint_names' = names
                     /\ joint_pos' = Update(joint_pos, [n \in Range(names) |-> EmptyDict])
                     /\ joint_widgets' = joint_widgets \o WidgetRows(names, robot_joint_limits)
                     /\ SetMode(JtcEnabled(FALSE, call.name, Mode))
                     /\ state_sub' = jtc_ns \o <<Slash, "controller_state">>
                     /\ node_subs' = node_subs + 1
                     /\ cmd_pub' = jtc_ns \o <<Slash, "joint_trajectory">>
                     /\ node_pubs' = node_pubs + 1
                     /\ signal_connected' = TRUE
                     /\ executor' = "executor"
                     /\ executor_thread' = "spinning"
                     /\ threads' = threads + 1
    /\ UNCHANGED <<speed_val, ui_queue>>
    /\ UNCHANGED discoveryVars

----
(* Feedback *)

RECURSIVE DictOf(_, _, _)
\* _state_cb's loop: current_pos[joint_name] = joint_pos, keys in order of first insertion.
DictOf(names, positions, acc) ==
    IF names = <<>> THEN acc
    ELSE LET hit == {i \in 1..Len(acc) : acc[i].name = Head(names)}
         IN DictOf(Tail(names), Tail(positions),
                   IF hit = {}
                   THEN Append(acc, [name |-> Head(names), pos |-> Head(positions)])
                   ELSE [i \in 1..Len(acc) |->
                           IF i \in hit THEN [acc[i] EXCEPT !.pos = Head(positions)]
                           ELSE acc[i]])

\* _state_cb on the executor thread. An IndexError leaves executor.spin and ends the
\* thread; the emitted signal is queued for the UI thread, with the report it was
\* decoded from (observation only).
StateCb(msg) ==
    /\ executor_thread = "spinning"
    /\ state_sub # NoHandle
    /\ IF Len(msg.positions) < Len(msg.joint_names)
       THEN /\ executor_thread' = "dead"
            /\ threads' = threads - 1
            /\ UNCHANGED ui_queue
       ELSE /\ UNCHANGED <<executor_thread, threads>>
            /\ IF signal_connected
               THEN /\ Len(ui_queue) < MaxQueue
                    /\ ui_queue' = Append(ui_queue,
                          [current_pos |-> DictOf(msg.joint_names, msg.positions, <<>>),
                           stale |-> FALSE,
                           msg |-> msg])
               ELSE UNCHANGED ui_queue
    /\ UNCHANGED <<jtc_name, speed_val, pc, call, last>>
    /\ UNCHANGED <<state_sub, cmd_pub, executor, node_subs, node_pubs>>
    /\ UNCHANGED <<discoveryVars, modeVars, sessionVars>>

\* Mutant: without the assertion on the number of keys.
FeedbackErrorNoAssert(current_pos, pos) ==
    IF \E i \in 1..Len(current_pos) : current_pos[i].name \notin DOMAIN pos
    THEN "KeyError"
    ELSE ""

\* The exception _on_joint_state_change raises on current_pos, "" when it returns.
FeedbackError(current_pos, pos) ==
    IF Len(current_pos) # Cardinality(DOMAIN pos) THEN "AssertionError"
    ELSE IF \E i \in 1..Len(current_pos) : current_pos[i].name \notin DOMAIN pos
    THEN "KeyError"
    ELSE ""

RECURSIVE ApplyFeedback(_, _)
\* Lines 264-265: the positions are stored key by key, up to the first unknown key.
ApplyFeedback(current_pos, pos) ==
    IF current_pos = <<>> \/ Head(current_pos).name \notin DOMAIN pos THEN pos
    ELSE ApplyFeedback(Tail(current_pos),
                       [pos EXCEPT ![Head(current_pos).name] =
                                     Put(@, "position", Head(current_pos).pos)])

\* Delivery of a queued jointStateChanged emission to _on_joint_state_change.
OnJointStateChange ==
    /\ pc = "idle"
    /\ ui_queue # <<>>
    /\ ~Head(ui_queue).stale
    /\ ui_queue' = Tail(ui_queue)
    /\ LET current_pos == Head(ui_queue).current_pos
           err == FeedbackError(current_pos, joint_pos)
       IN /\ joint_pos' = IF err = "AssertionError" THEN joint_pos
                          ELSE ApplyFeedback(current_pos, joint_pos)
          /\ last' = [Obs("on_joint_state_change") EXCEPT
                        !.error = err, !.report = <<Head(ui_queue)>>,
                        !.before = joint_pos]
    /\ UNCHANGED <<jtc_name, speed_val, pc, call>>
    /\ UNCHANGED <<joint_names, joint_widgets, signal_connected>>
    /\ UNCHANGED <<discoveryVars, modeVars, rosVars>>

\* An emission queued before the signal was disconnected: whether the slot still
\* runs depends on the Qt binding. Either it is discarded ...
DropStaleFeedback ==
    /\ pc = "idle"
    /\ ui_queue # <<>>
    /\ Head(ui_queue).stale
    /\ ui_queue' = Tail(ui_queue)
    /\ UNCHANGED <<jtc_name, speed_val, pc, call, last>>
    /\ UNCHANGED <<discoveryVars, modeVars, rosVars, sessionVars>>

\* ... or it is delivered to _on_joint_state_change all the same.
DeliverStaleFeedback ==
    /\ pc = "idle"
    /\ ui_queue # <<>>
    /\ Head(ui_queue).stale
    /\ ui_queue' = Tail(ui_queue)
    /\ LET current_pos == Head(ui_queue).current_pos
           err == FeedbackError(current_pos, joint_pos)
       IN /\ joint_pos' = IF err = "AssertionError" THEN joint_pos
                          ELSE ApplyFeedback(current_pos, joint_pos)
          /\ last' = [Obs("on_joint_state_change") EXCEPT
                        !.error = err, !.val = TRUE, !.report = <<Head(ui_queue)>>,
                        !.before = joint_pos]
    /\ UNCHANGED <<jtc_name, speed_val, pc, call>>
    /\ UNCHANGED <<joint_names, joint_widgets, signal_connected>>
    /\ UNCHANGED <<discoveryVars, modeVars, rosVars>>

----
(* Specifications *)

FeedbackMsg(n, p) == [joint_names |-> n, positions |-> p]

\* Inputs of the session specification.
SessionListings ==
    { <<>>,
      <<Info(NameA, TypeJtc, "active", IfJ1)>>,
      <<Info(NameA, TypeJtc, "active", IfJ1J2)>>,
      <<Info(NameB, TypeJtc, "active", IfJ2)>> }
SessionUrdfs == {[j \in {JointJ1} |-> Limits(2)], [j \in Joints |-> Limits(2)]}
SessionMsgs ==
    { FeedbackMsg(<<JointJ1>>, <<1>>),
      FeedbackMsg(<<JointJ1, JointJ2>>, <<1, 1>>),
      FeedbackMsg(<<JointJ2>>, <<>>) }
SessionCmds == {0}
SpeedVals == {50, 100}

\* The inputs a handler reads: the listing when there is a lister to call, the robot
\* description when the limits are looked up.
ListingsRead(listings, lister) == IF lister = NoLister THEN {<<>>} ELSE listings
UrdfsRead(urdfs, lister, listing, limits) ==
    IF lister # NoLister /\ NeedsLimitLookup(RunningJtcInfo(listing), limits)
    THEN urdfs ELSE {EmptyDict}

DiscoveryNext(listings, urdfs) ==
    \/ \E l \in ListingsRead(listings, list_controllers) :
         \E u \in UrdfsRead(urdfs, list_controllers, l, robot_joint_limits) :
            UpdateJtcList(l, u)
    \/ \E cm \in Managers \cup {Empty} :
         \E l \in ListingsRead(listings, cm) :
            \E u \in UrdfsRead(urdfs, cm, l, robot_joint_limits) :
               OnCmChange(cm, l, u)

SelectionNext(listings) ==
    \/ \E n \in {Empty, NameA, NameAB, NameB} : OnJtcChange(n)
    \/ UnregisterStateSub
    \/ UnregisterCmdPub
    \/ UnregisterExecutor
    \/ UnloadReset
    \/ \E l \in ListingsRead(listings, IF call.name = Empty THEN NoLister
                                       ELSE list_controllers) :
         JtcSelect(l)

CommandNext(cmds) ==
    \/ \E v \in SpeedVals : OnSpeedScalingChange(v)
    \/ \E v \in cmds, n \in Joints : UpdateSingleCmdCb(v, n)
    \/ UpdateCmdCb
    \/ UpdateJointWidgets

FeedbackNext(msgs) ==
    \/ \E m \in msgs : StateCb(m)
    \/ OnJointStateChange
    \/ DropStaleFeedback
    \/ DeliverStaleFeedback

Next ==
    \/ DiscoveryNext(SessionListings, SessionUrdfs)
    \/ SelectionNext(SessionListings)
    \/ OnJtcEnabled
    \/ CommandNext(SessionCmds)
    \/ FeedbackNext(SessionMsgs)

\* The discovery specification: every listing and every robot description, with the
\* handlers that select, bind and unbind controllers.
NextDiscovery ==
    \/ DiscoveryNext(Listings, UrdfSnapshots)
    \/ SelectionNext(Listings)

SpecDiscovery == Init /\ [][NextDiscovery]_vars

\* Inputs of the feedback specification: reports with as many positions as names,
\* with fewer and with more, for joints of the session and for other joints.
FeedbackListings ==
    { <<Info(NameA, TypeJtc, "active", IfJ1)>>,
      <<Info(NameA, TypeJtc, "active", IfJ1J2)>> }
FeedbackUrdfs == {[j \in Joints |-> Limits(2)]}
FeedbackMsgs ==
    { FeedbackMsg(<<JointJ1>>, <<1>>),
      FeedbackMsg(<<JointJ1, JointJ2>>, <<0, 1>>),
      FeedbackMsg(<<JointJ1, JointJ3>>, <<1, 1>>),
      FeedbackMsg(<<JointJ1>>, <<0, 1>>),
      FeedbackMsg(<<JointJ1, JointJ2>>, <<1>>) }

\* The feedback specification: discovery, selection and the feedback path.
NextFeedback ==
    \/ DiscoveryNext(FeedbackListings, FeedbackUrdfs)
    \/ SelectionNext(FeedbackListings)
    \/ FeedbackNext(FeedbackMsgs)

SpecFeedback == Init /\ [][NextFeedback]_vars

\* Inputs of the command specification: the sessions command synthesis can find.
CommandJointNames == {<<JointJ1>>, <<JointJ1, JointJ2>>}
CommandPositions == {0, 1}      \* within the position limits of Limits
CommandVelocities == {1, 2}
\* The entry of a joint in self._joint_pos: position, command, both or neither.
CommandEntries ==
    UNION { [F -> CommandPositions] : F \in SUBSET {"position", "command"} }

\* A session bound to controller a as _load_jtc binds it, switched to control mode,
\* after any feedback and any edits of the user.
InitCommand ==
    /\ cm_ns \in Managers
    /\ list_controllers = cm_ns
    /\ jtc_combo = <<NameA>>
    /\ jtc_name = NameA
    /\ joint_names \in CommandJointNames
    /\ robot_joint_limits \in [Range(joint_names) -> {Limits(v) : v \in CommandVelocities}]
    /\ joint_pos \in [Range(joint_names) -> CommandEntries]
    /\ joint_widgets = joint_names
    /\ widgets_enabled = TRUE
    /\ enable_button = TRUE
    /\ speed_val \in SpeedVals
    /\ update_cmd_timer = TRUE
    /\ update_act_pos_timer = FALSE
    /\ state_sub = ResolveControllerNs(cm_ns, NameA) \o <<Slash, "controller_state">>
    /\ cmd_pub = ResolveControllerNs(cm_ns, NameA) \o <<Slash, "joint_trajectory">>
    /\ executor = "executor"
    /\ executor_thread = "spinning"
    /\ signal_connected = TRUE
    /\ node_subs = 1
    /\ node_pubs = 1
    /\ threads = 1
    /\ ui_queue = <<>>
    /\ pc = "idle"
    /\ call = NoCall
    /\ last = [Obs("on_jtc_enabled") EXCEPT !.val = TRUE]

\* The command specification: the mode switch, the editors and the two timers.
NextCommand ==
    \/ OnJtcEnabled
    \/ CommandNext(CommandPositions)

SpecCommand == InitCommand /\ [][NextCommand]_vars

\* Inputs of the namespace specification: the empty namespace, the root namespace and
\* the absolute namespaces of up to MaxDepth segments; a controller name or no name.
Segments == {"path", "to", "controller_manager"}
RECURSIVE NamespacesOfDepth(_)
NamespacesOfDepth(d) ==
    IF d = 0 THEN {Empty}
    ELSE {ns \o <<Slash, seg>> : ns \in NamespacesOfDepth(d - 1), seg \in Segments}
Namespaces == {<<Slash>>} \cup UNION {NamespacesOfDepth(d) : d \in 0..MaxDepth}
NameFoo == <<"foo">>
ResolveNames == {Empty, NameA, NameAB, NameFoo}

\* The arguments of line 341: self._cm_ns and self._jtc_name.
InitResolve ==
    /\ cm_ns \in Namespaces
    /\ jtc_name \in ResolveNames
    /\ list_controllers = NoLister
    /\ jtc_combo = <<>>
    /\ robot_joint_limits = EmptyDict
    /\ joint_names = <<>>
    /\ joint_pos = EmptyDict
    /\ joint_widgets = <<>>
    /\ widgets_enabled = FALSE
    /\ enable_button = FALSE
    /\ speed_val = InitialSpeedVal
    /\ update_cmd_timer = FALSE
    /\ update_act_pos_timer = FALSE
    /\ state_sub = NoHandle
    /\ cmd_pub = NoHandle
    /\ executor = NoHandle
    /\ executor_thread = "none"
    /\ signal_connected = FALSE
    /\ node_subs = 0
    /\ node_pubs = 0
    /\ threads = 0
    /\ ui_queue = <<>>
    /\ pc = "idle"
    /\ call = NoCall
    /\ last = Obs("init")

\* A call of _resolve_controller_ns(self._cm_ns, self._jtc_name).
ResolveNs ==
    /\ last' = [Obs("resolve_controller_ns") EXCEPT
                  !.name = jtc_name,
                  !.error = ResolveError(jtc_name),
                  !.result = IF ResolveError(jtc_name) = ""
                             THEN <<ResolveControllerNs(cm_ns, jtc_name)>>
                             ELSE <<>>]
    /\ UNCHANGED <<jtc_name, speed_val, ui_queue, pc, call>>
    /\ UNCHANGED <<discoveryVars, modeVars, rosVars, sessionVars>>

NextResolve == ResolveNs

SpecResolve == InitResolve /\ [][NextResolve]_vars

Spec == Init /\ [][Next]_vars

----
(* Properties *)

SessionBound == state_sub # NoHandle /\ cmd_pub # NoHandle /\ executor # NoHandle

\* What _unload_jtc leaves behind.
TornDown ==
    /\ state_sub = NoHandle /\ cmd_pub = NoHandle /\ executor = NoHandle
    /\ node_subs = 0 /\ node_pubs = 0 /\ threads = 0
    /\ joint_names = <<>> /\ joint_pos = EmptyDict /\ joint_widgets = <<>>
    /\ ~signal_connected
    /\ ~enable_button

\* A step of _unload_jtc.
UnloadStep ==
    /\ pc' # pc
    /\ pc' \in {"unregister_state_sub", "unregister_cmd_pub", "unregister_executor",
                "reset", "select"}

\* C1: the command-publication timer and the feedback-refresh timer are never both
\* active, in any state any sequence of events reaches.
C1_TimersExclusive == ~(update_cmd_timer /\ update_act_pos_timer)

C1_Witness ==
    /\ last.event = "on_jtc_enabled" /\ last.val
    /\ update_cmd_timer /\ ~update_act_pos_timer

C3_SelectionStartsInMonitor ==
    (pc = "idle" /\ last.event = "on_jtc_change" /\ last.name # Empty) =>
        /\ ~enable_button
        /\ ~update_cmd_timer
        /\ last.error = "" => update_act_pos_timer

C3_Witness ==
    /\ pc = "idle" /\ last.event = "on_jtc_change" /\ last.name # Empty
    /\ last.from_control /\ last.error = ""
    /\ SessionBound /\ update_act_pos_timer

\* C4: a trajectory command is published only with the enable button checked and a
\* session bound: never in monitor mode, never without a session.
C4_MonitorIsReadOnly ==
    last.published # <<>> => (enable_button /\ SessionBound /\ jtc_name # Empty)

C4_Witness == last.event = "update_cmd_cb" /\ last.published # <<>>

\* C5 as claimed: an enable request with no controller selected, or with a joint of
\* the selected controller missing from the limit cache, leaves the button unchecked
\* and the command timer stopped.
C5_EnableRejectedWithoutLimits ==
    ( /\ pc = "idle" /\ last.event = "on_jtc_enabled" /\ last.val
      /\ \/ jtc_name = Empty
         \/ \E i \in 1..Len(joint_names) : joint_names[i] \notin DOMAIN robot_joint_limits )
    => (~enable_button /\ ~update_cmd_timer)

\* C6: at most one live subscription, publisher and executor thread at every point,
\* and every step that creates one starts with none of them live and an empty
\* runtime-state table.
C6_UnloadBeforeLoad ==
    /\ [](node_subs <= 1 /\ node_pubs <= 1 /\ threads <= 1)
    /\ [][ (node_subs' > node_subs \/ node_pubs' > node_pubs \/ threads' > threads)
             => /\ node_subs = 0 /\ node_pubs = 0 /\ threads = 0
                /\ state_sub = NoHandle /\ cmd_pub = NoHandle /\ executor = NoHandle
                /\ joint_pos = EmptyDict ]_vars

C6_Witness ==
    /\ pc = "idle" /\ last.event = "on_jtc_change" /\ last.name # Empty
    /\ last.destroyed = 3 /\ last.error = ""
    /\ node_subs = 1 /\ node_pubs = 1 /\ threads = 1

\* C7: _unload_jtc leaves no live subscription, publisher or thread and an empty
\* runtime-state table, and no step of an unload that starts from such a state changes
\* the mode, the ROS resources or the session data.
C7_TeardownIdempotent ==
    /\ [](pc = "select" => TornDown)
    /\ [][ (TornDown /\ UnloadStep) =>
             UNCHANGED <<modeVars, rosVars, sessionVars>> ]_vars

C7_Witness ==
    /\ pc = "idle" /\ last.event = "on_jtc_change" /\ last.name = Empty
    /\ last.destroyed = 3 /\ TornDown

\* C8: once the limit cache is non-empty no event changes it or looks limits up again.
C8_CachePopulatedOnce ==
    [][ DOMAIN robot_joint_limits # {} =>
          /\ robot_joint_limits' = robot_joint_limits
          /\ last'.lookups = 0 ]_vars

\* The joints of the running controllers of a listing.
JointsOfListing(listing) ==
    UNION {Range(JtcJointNames(c)) : c \in Range(RunningJtcInfo(listing))}

C8_Witness ==
    /\ last.event = "update_jtc_list" /\ last.polled # <<>> /\ last.lookups = 0
    /\ DOMAIN robot_joint_limits # {}
    /\ ~(JointsOfListing(last.polled[1]) \subseteq DOMAIN robot_joint_limits)

IsPoll == last.event \in {"update_jtc_list", "on_cm_change"} /\ last.polled # <<>>

\* The controllers of a listing that are to be offered under the limits.
Offered(listing, limits) ==
    { c \in Range(listing) :
        /\ Contains(c.type, Marker)
        /\ c.state = "active"
        /\ \A j \in Range(JtcJointNames(c)) : j \in DOMAIN limits }

\* C9: with a non-empty limit cache, the candidate list of a poll holds exactly the
\* names of the listed controllers of the marker type that are active and have all
\* their joints in the cache, each once, in lexicographic order.
C9_CandidatesAreValidSorted ==
    (IsPoll /\ DOMAIN robot_joint_limits # {}) =>
        /\ Range(jtc_combo) = {c.name : c \in Offered(last.polled[1], robot_joint_limits)}
        /\ Len(jtc_combo) = Cardinality(Offered(last.polled[1], robot_joint_limits))
        /\ \A i, j \in 1..Len(jtc_combo) : i < j => StrLess(jtc_combo[i], jtc_combo[j])

C9_Witness ==
    /\ IsPoll /\ DOMAIN robot_joint_limits # {}
    /\ Len(last.polled[1]) = 2 /\ Len(jtc_combo) = 2
    /\ last.polled[1][1].name = jtc_combo[2]

\* A poll that found active controllers of the marker type and left the cache empty.
PollLeftCacheEmpty ==
    /\ IsPoll
    /\ RunningJtcInfo(last.polled[1]) # <<>>
    /\ DOMAIN robot_joint_limits = {}

\* C10 as claimed: such a poll offers every active controller of the marker type.
C10_Original ==
    PollLeftCacheEmpty =>
        Range(jtc_combo) = {c.name : c \in Range(RunningJtcInfo(last.polled[1]))}

\* C10 as amended: such a poll has looked the limits up for each running controller
\* and offers no controller at all.
C10_Amended ==
    PollLeftCacheEmpty =>
        /\ jtc_combo = <<>>
        /\ last.lookups = Len(RunningJtcInfo(last.polled[1]))

C10_Witness == PollLeftCacheEmpty /\ Len(RunningJtcInfo(last.polled[1])) = 2

----
(* Properties of the feedback path *)

\* A report with as many positions as joint names.
WellFormed(msg) == Len(msg.positions) = Len(msg.joint_names)

Keys(current_pos) == {current_pos[i].name : i \in 1..Len(current_pos)}

Reported(current_pos, name) ==
    (CHOOSE e \in Range(current_pos) : e.name = name).pos

\* _on_joint_state_change has just been given an update that was emitted for the
\* session that is bound.
FeedbackHandled ==
    last.event = "on_joint_state_change" /\ last.report # <<>> /\ ~last.val

\* The table after an update that was stored: the joints the update names have the
\* reported position, every other entry and every other field is as before.
Stored(current_pos, before, after) ==
    /\ DOMAIN after = DOMAIN before
    /\ \A n \in DOMAIN before :
          after[n] = IF n \in Keys(current_pos)
                     THEN Put(before[n], "position", Reported(current_pos, n))
                     ELSE before[n]

\* C11 as claimed: a report whose joint_names and positions differ in length, either
\* way, is never handed to the UI thread and never changes the runtime-state table.
C11_MismatchedFeedbackRejected ==
    /\ \A i \in 1..Len(ui_queue) : WellFormed(ui_queue[i].msg)
    /\ (FeedbackHandled /\ ~WellFormed(last.report[1].msg)) => joint_pos = last.before

\* C12 as claimed: an update that names a joint outside the table does not make the
\* handler fail, creates no entry, and the joints it names that the table knows get
\* their reported position.
C12_UnknownJointDiscarded ==
    (FeedbackHandled /\ ~(Keys(last.report[1].current_pos) \subseteq DOMAIN last.before)) =>
        /\ last.error = ""
        /\ Stored(last.report[1].current_pos, last.before, joint_pos)

\* C13 as claimed: an update whose keys are a subset of the joints of the table is
\* stored, also when the subset is strict.
C13_Original ==
    (FeedbackHandled /\ Keys(last.report[1].current_pos) \subseteq DOMAIN last.before) =>
        /\ last.error = ""
        /\ Stored(last.report[1].current_pos, last.before, joint_pos)

\* C13 as amended: an update whose keys are exactly the joints of the table is stored;
\* an update whose keys are a strict subset fails the assertion and changes nothing.
C13_Amended ==
    (FeedbackHandled /\ Keys(last.report[1].current_pos) \subseteq DOMAIN last.before) =>
        IF Keys(last.report[1].current_pos) = DOMAIN last.before
        THEN /\ last.error = ""
             /\ Stored(last.report[1].current_pos, last.before, joint_pos)
        ELSE /\ last.error = "AssertionError"
             /\ joint_pos = last.before

C13_Witness ==
    /\ FeedbackHandled /\ ~last.val
    /\ Keys(last.report[1].current_pos) # {}
    /\ Keys(last.report[1].current_pos) \subseteq DOMAIN last.before
    /\ Keys(last.report[1].current_pos) # DOMAIN last.before
    /\ last.error = "AssertionError" /\ joint_pos = last.before

----
(* Properties of command synthesis *)

\* _update_cmd_cb has just run.
CmdTick == last.event = "update_cmd_cb"

\* Every joint of the session has a position in the table.
PositionsKnown ==
    \A n \in Range(joint_names) : n \in DOMAIN joint_pos /\ "position" \in DOMAIN joint_pos[n]

LimitsKnown == \A n \in Range(joint_names) : n \in DOMAIN robot_joint_limits

\* The position commanded for joint n: the user's command if one was set, the current
\* feedback position otherwise.
Commanded(n) ==
    IF "command" \in DOMAIN joint_pos[n] THEN joint_pos[n].command ELSE joint_pos[n].position

Distance(n) == Abs(Commanded(n) - joint_pos[n].position)

\* q * speed_scale >= max(Distance(n) / max_velocity(n), min_trajectory_duration),
\* for a duration q = <<numerator, denominator>> in seconds; Tight: with equality.
Covers(q, n) ==
    /\ q[1] * speed_val * robot_joint_limits[n].max_velocity
           >= Distance(n) * q[2] * SliderMaximum
    /\ q[1] * speed_val * CmdPubFreq >= 5 * q[2] * SliderMaximum
Tight(q, n) ==
    \/ q[1] * speed_val * robot_joint_limits[n].max_velocity
           = Distance(n) * q[2] * SliderMaximum
    \/ q[1] * speed_val * CmdPubFreq = 5 * q[2] * SliderMaximum

\* C14: with a position and limits for every joint, the message of _update_cmd_cb has
\* the joint names of the session in their order and exactly one point; the point
\* holds for each joint the user's command if one was set and the feedback position
\* otherwise, and its duration is the maximum over the joints of
\* max(|cmd - position| / max_velocity, min_trajectory_duration), divided by the speed
\* scale: 0.5 s at scale 1.0 and 1.0 s at scale 0.5 for position 0, command 1,
\* max_velocity 2.
C14_CommandEqualsReference ==
    (CmdTick /\ cmd_pub # NoHandle /\ joint_names # <<>> /\ PositionsKnown /\ LimitsKnown) =>
        /\ Len(last.published) = 1
        /\ last.published[1].joint_names = joint_names
        /\ Len(last.published[1].points) = 1
        /\ LET point == last.published[1].points[1]
               q == point.time_from_start
           IN /\ Len(point.positions) = Len(joint_names)
              /\ \A i \in 1..Len(joint_names) : point.positions[i] = Commanded(joint_names[i])
              /\ q[2] > 0
              /\ \A n \in Range(joint_names) : Covers(q, n)
              /\ \E n \in Range(joint_names) : Tight(q, n) /\ Covers(q, n)
              /\ ( /\ joint_names = <<JointJ1>>
                    /\ joint_pos[JointJ1].position = 0 /\ Commanded(JointJ1) = 1
                    /\ robot_joint_limits[JointJ1].max_velocity = 2 )
                 => /\ speed_val = 100 => q[1] * 2 = q[2]
                    /\ speed_val = 50 => q[1] = q[2]

\* Two joints, the second one the slower, at half speed.
C14_Witness ==
    /\ CmdTick /\ last.published # <<>>
    /\ joint_names = <<JointJ1, JointJ2>>
    /\ "command" \notin DOMAIN joint_pos[JointJ1]
    /\ joint_pos[JointJ2] = [position |-> 0, command |-> 1]
    /\ robot_joint_limits[JointJ2].max_velocity = 1
    /\ speed_val = 50
    /\ last.published[1].points[1].time_from_start = <<2, 1>>

\* C15: in every published command, for every joint, |cmd - position| / duration is at
\* most max_velocity * speed_scale, for a speed scale in (0, 1] and a positive
\* max_velocity; and the duration is at least min_trajectory_duration.
C15_SpeedBounded ==
    (CmdTick /\ last.published # <<>>) =>
        LET q == last.published[1].points[1].time_from_start
        IN /\ speed_val > 0 /\ speed_val <= SliderMaximum
           /\ q[1] > 0 /\ q[2] > 0
           /\ \A n \in Range(joint_names) :
                 /\ robot_joint_limits[n].max_velocity > 0
                 /\ Distance(n) * q[2] * SliderMaximum
                      <= robot_joint_limits[n].max_velocity * speed_val * q[1]
           /\ q[1] * CmdPubFreq >= 5 * q[2]

\* A joint that moves at exactly the scaled maximum velocity.
C15_Witness ==
    /\ CmdTick /\ last.published # <<>>
    /\ speed_val = 50
    /\ \E n \in Range(joint_names) :
          /\ Distance(n) = 1
          /\ robot_joint_limits[n].max_velocity = 1
          /\ last.published[1].points[1].time_from_start = <<2, 1>>

----
(* Properties of binding and unbinding *)

\* _on_jtc_change has just ended on a name that the listing read by _load_jtc lacks.
BindRefused ==
    /\ pc = "idle" /\ last.event = "on_jtc_change"
    /\ last.name # Empty /\ last.error = "StopIteration"

\* C16 as claimed: a bind to a name that is absent from the listing read at bind time
\* leaves no selected controller, no subscription, no publisher, no thread and no
\* runtime state, and the enable button cannot be checked without a publisher.
C16_RefusedBindLeavesNoSession ==
    /\ BindRefused =>
          /\ jtc_name = Empty
          /\ state_sub = NoHandle /\ cmd_pub = NoHandle
          /\ executor = NoHandle /\ threads = 0
          /\ joint_names = <<>> /\ joint_pos = EmptyDict
    /\ (pc = "idle" /\ enable_button) => cmd_pub # NoHandle

\* The namespace cm without its last "/"-segment.
ParentNs(cm) ==
    IF cm = Empty THEN Empty
    ELSE IF cm[Len(cm)] = Slash THEN SubSeq(cm, 1, Len(cm) - 1)
    ELSE SubSeq(cm, 1, Len(cm) - 2)

PathToControllerManager == <<Slash, "path", Slash, "to", Slash, "controller_manager">>

\* C17: for a non-empty name _resolve_controller_ns returns the parent namespace of
\* cm_ns, one "/" and the name, so the result ends with "/" and the name after
\* a character that is not "/": "/path/to/foo" for "/path/to/controller_manager",
\* "/foo" for "/" and for ""; the result is a function of the arguments; an empty
\* name fails the assertion.
C17_ResolveControllerNs ==
    last.event = "resolve_controller_ns" =>
        IF jtc_name = Empty
        THEN last.error = "AssertionError" /\ last.result = <<>>
        ELSE /\ last.error = "" /\ Len(last.result) = 1
             /\ LET r == last.result[1]
                    k == Len(r) - Len(jtc_name)
                IN /\ r = ParentNs(cm_ns) \o <<Slash>> \o jtc_name
                   /\ k >= 1 /\ r[k] = Slash /\ SubSeq(r, k + 1, Len(r)) = jtc_name
                   /\ k >= 2 => r[k - 1] # Slash
                   /\ (cm_ns = PathToControllerManager /\ jtc_name = NameFoo)
                        => r = <<Slash, "path", Slash, "to", Slash, "foo">>
                   /\ (cm_ns \in {<<Slash>>, Empty} /\ jtc_name = NameFoo)
                        => r = <<Slash, "foo">>

C17_Witness ==
    /\ last.event = "resolve_controller_ns"
    /\ cm_ns = PathToControllerManager /\ jtc_name = NameFoo
    /\ last.result = << <<Slash, "path", Slash, "to", Slash, "foo">> >>

\* C18 as claimed: no subscription or publisher handle is released while the executor
\* thread of the session is running.
C18_ThreadStoppedBeforeRelease ==
    (state_sub = NoHandle \/ cmd_pub = NoHandle) => executor_thread # "spinning"

\* C19 as claimed: a tick of the command timer on a bound session publishes exactly
\* one message when every joint has a position, and nothing when a position is unknown.
C19_TickPublishesOnce ==
    (CmdTick /\ enable_button /\ SessionBound) =>
        IF PositionsKnown THEN Len(last.published) = 1 ELSE last.published = <<>>

\* C20 as claimed: between handlers, while the command timer is active the enable
\* button is checked, a controller is selected, the publisher exists and the joint
\* list and the runtime-state table are those of a bound controller.
C20_CmdTimerImpliesBound ==
    (pc = "idle" /\ update_cmd_timer) =>
        /\ enable_button
        /\ jtc_name # Empty
        /\ cmd_pub # NoHandle
        /\ joint_names # <<>> /\ DOMAIN joint_pos = Range(joint_names)

\* _on_joint_state_change has just been given an update that was emitted for a
\* session that has been unbound since.
StaleFeedbackHandled ==
    last.event = "on_joint_state_change" /\ last.report # <<>> /\ last.val

\* C21 as claimed: an update that the executor thread of a session handed to the UI
\* thread is not applied once that session is unbound: _on_joint_state_change
\* stores nothing of it, in an empty runtime-state table or in the table of a session
\* bound later.
C21_NoFeedbackAfterUnbind ==
    StaleFeedbackHandled => joint_pos = last.before

====
